---- MODULE Spec2Model ----
(***************************************************************************)
(* Model of Pixeldrainer (src/main.py): main, the range-aware streaming    *)
(* download loop download_to_ram, the resolution and storage of the        *)
(* credentials and the upload, together with the HTTP servers and the      *)
(* network the program talks to.                                           *)
(*                                                                         *)
(* The program is single-threaded.  Its position is pc:                    *)
(*   "main"       before main reads args.source (line 258)                 *)
(*   "head"       before the HEAD probe (line 36)                          *)
(*   "loop"       at the loop condition (line 52)                          *)
(*   "ranged"     the ranged GET of line 55 is in flight                   *)
(*   "stream206"  iterating the body of a 206 response (lines 60-63)       *)
(*   "full"       the non-ranged GET of line 69 is in flight               *)
(*   "streamFull" iterating the body of the fallback response (72-75)      *)
(*   "done"       download_to_ram executes its return (line 87)             *)
(*   "fatal"      the process has terminated with a non-zero status        *)
(*                during the download                                      *)
(*   "props"      before get_upload_properties (line 263 or 271)           *)
(*   "upload"     credentials resolved, before the upload (266 or 274)     *)
(*   "display"    the upload has returned a result (line 276)              *)
(*   "store"      the result was displayed as a success (line 281)         *)
(*   "exit0"      main has returned: the process exits with status 0       *)
(*   "fatal_credentials", "fatal_local", "fatal_upload",                   *)
(*   "fatal_result"  the process has terminated with a non-zero status     *)
(*                for missing credentials, for a local file that cannot    *)
(*                be opened, for an upload request that raised, for an     *)
(*                upload result that reports a failure                     *)
(*                                                                         *)
(* The environment: the resource is the byte sequence src.  The HEAD probe *)
(* declares its true length, or 0 when the length header is absent.  A     *)
(* ranged GET is answered 206 with the requested range (clamped to the     *)
(* resource, RFC 7233), or with another 2xx and the full body, or with a   *)
(* 4xx/5xx status; any request and any body read may fail with a           *)
(* network-layer exception.  The upload endpoint answers a POST with a     *)
(* result {success: bool, ...} or the request raises.                      *)
(*                                                                         *)
(* The command line and the .env file are fixed before the run and nothing *)
(* touches them until main reads them: the model fixes each of them at the *)
(* step that first reads it; Unread is the value of one not read yet.      *)
(***************************************************************************)
EXTENDS Integers, Sequences, FiniteSets, TLC

\* ---- bounds of the model ----
MaxLen == 3           \* longest resource, in bytes
MaxByte == 2          \* byte values of the resource are 1..MaxByte
MaxFailures == 2      \* network-layer failures in one download
MaxHttpErrors == 1    \* 4xx/5xx answers in one download

\* The count of ranged GETs stops at MaxGets.  A download whose failures and
\* error answers stay within the bounds above issues fewer ranged GETs than
\* that (RangedGetsCounted); the count stands still only when the server
\* refuses the range forever (HttpErrorPersists).
MaxGets == MaxLen + MaxFailures + MaxHttpErrors + 2

\* ---- program constants ----
BLOCK_SIZE == 4096

VARIABLES
    pc,               \* position of the program
    src,              \* the bytes of the remote resource
    total_size,       \* line 39
    downloaded_size,  \* line 49
    file_in_ram,      \* line 48: a BytesIO, [data |-> bytes, pos |-> cursor]
    status_code,      \* response.status_code of the latest response, 0 if none
    resp_body,        \* bytes of the current response not yet iterated
    range,            \* Range header of the latest GET, NoRange if it had none
    bar,              \* the latest tqdm bar: [total, n, open]
    \* ---- history of the run (observation only) ----
    headProbes,       \* HEAD requests issued
    rangedGets,       \* GETs issued at line 55
    fullGets,         \* GETs issued at line 69
    rangedAnswers,    \* status codes that answered ranged GETs
    rangedFailures,   \* network failures of a ranged GET or of its body
    fullFailures,     \* network failures of a fallback GET or of its body
    httpErrors,       \* 4xx/5xx answers received
    lastEvent,        \* how the loop condition was last reached
    streamed,         \* concatenation of every block iterated so far
    fullBody,         \* body of the latest fallback response
    discarded,        \* content dropped by the latest truncation of a non-empty buffer
    exitBy,           \* how the loop was left: "cond", "break" or "none"
    \* ---- main, credentials and upload ----
    source,           \* args.source: "url" or "local"
    localFile,        \* the local source: "missing", "unreadable" or "ok"
    args_username,    \* args.username, "" when not given
    args_apikey,      \* args.apikey, "" when not given
    store_credential, \* args.store_credential: "True" or "False"
    dotenv,           \* the .env file: [username, apikey], "" for an absent key
    username,         \* the resolved user name (lines 170-176)
    apikey,           \* the resolved API key (lines 171-176)
    upload_result,    \* line 252: None, or the JSON result with its success
    \* ---- history of the run (observation only) ----
    dotenv0,          \* the .env file as load_dotenv found it
    envWrites,        \* times store_credentials opened .env for writing
    posts,            \* upload POSTs issued
    uploaded,         \* the bytes the upload POST read from its file object
    displayed,        \* the success links were displayed
    handedOff         \* the buffer as download_to_ram returned it

vars == << pc, src, total_size, downloaded_size, file_in_ram, status_code,
           resp_body, range, bar, headProbes, rangedGets, fullGets,
           rangedAnswers, rangedFailures, fullFailures, httpErrors,
           lastEvent, streamed, fullBody, discarded, exitBy,
           source, localFile, args_username, args_apikey, store_credential,
           dotenv, username, apikey, upload_result, dotenv0, envWrites,
           posts, uploaded, displayed, handedOff >>

mainv == << source, localFile, args_username, args_apikey, store_credential,
            dotenv, username, apikey, upload_result, dotenv0, envWrites,
            posts, uploaded, displayed >>

prog == << total_size, downloaded_size, file_in_ram, status_code, resp_body,
           range, bar >>
hist == << headProbes, rangedGets, fullGets, rangedAnswers, rangedFailures,
           fullFailures, httpErrors, lastEvent, streamed, fullBody,
           discarded, exitBy >>

Min(a, b) == IF a < b THEN a ELSE b

Bytes == 1..MaxByte
Resources == UNION { [1..n -> Bytes] : n \in 0..MaxLen }

Unread == "?"
UnreadEnv == [username |-> Unread, apikey |-> Unread]
\* line 252: upload_result = None
None == [set |-> FALSE, success |-> FALSE]

NoRange == [start |-> -1, end |-> -1]
NoBar == [total |-> 0, n |-> 0, open |-> FALSE]

IsPrefix(a, b) == Len(a) <= Len(b) /\ SubSeq(b, 1, Len(a)) = a

\* ---- io.BytesIO ----
\* write(data) at the cursor: overwrites, extends, and pads a gap between the
\* end of the content and the cursor with zero bytes.
BytesIOWrite_AtStart(f, data) ==
    [data |-> data \o SubSeq(f.data, Len(data) + 1, Len(f.data)),
     pos |-> Len(data)]
BytesIOWrite(f, data) ==
    LET old == f.data
        p == f.pos
        newLen == IF p + Len(data) > Len(old) THEN p + Len(data) ELSE Len(old)
    IN [data |-> [i \in 1..newLen |->
                    IF i > p /\ i <= p + Len(data) THEN data[i - p]
                    ELSE IF i <= Len(old) THEN old[i]
                    ELSE 0],
        pos |-> p + Len(data)]

BytesIOSeek(f, p) == [f EXCEPT !.pos = p]

\* truncate(size) resizes the content and leaves the cursor where it is.
BytesIOTruncate(f, size) ==
    [f EXCEPT !.data = SubSeq(f.data, 1, Min(size, Len(f.data)))]

\* ---- the HTTP server ----
SuccessOther == {200}
HttpErrorStatus == {403, 500}

\* Body of the answer to a GET: the requested range for a 206, the whole
\* resource otherwise.
ServerBody(status, r) ==
    IF status = 206
    THEN SubSeq(src, r.start + 1, Min(r.end + 1, Len(src)))
    ELSE src

\* ---- pieces of download_to_ram ----
\* line 54
RangeHeader_FromZero(downloaded, total) == [start |-> 0, end |-> total]
RangeHeader(downloaded, total) == [start |-> downloaded, end |-> total]

\* response.raise_for_status(), lines 56 and 70
RaisesForStatus(status) == status >= 400 /\ status < 600

\* line 58
IsPartialContent_AnySuccess(status) == status >= 200 /\ status < 300
IsPartialContent(status) == status = 206

\* lines 67-68
FallbackReset_NoSeek(f) == BytesIOTruncate(f, 0)
FallbackReset(f) == BytesIOTruncate(BytesIOSeek(f, 0), 0)

\* line 85
RewindForReturn_Forgotten(f) == f
RewindForReturn(f) == BytesIOSeek(f, 0)

\* lines 81-83: where the handler of an exception that is not a
\* RequestException leaves the program.
UnexpectedExceptionExit_Retried == "loop"
UnexpectedExceptionExit == "fatal"

\* lines 63 and 75
BarUpdate_BlockSize(b, data) == [b EXCEPT !.n = b.n + BLOCK_SIZE]
BarUpdate(b, data) == [b EXCEPT !.n = b.n + Len(data)]

\* ---- pieces of main, get_upload_properties and store_credentials ----
\* Python truth value of an optional string: None and "" are false.
Truthy(v) == v # ""

CliUsernames == {"", "cliU"}
CliApikeys == {"", "cliK"}
EnvFiles == [username : {"", "envU"}, apikey : {"", "envK"}]

\* lines 174-182: the credentials of the command line, or those of the
\* environment when the command line gives neither; ok is FALSE where the
\* code calls sys.exit(1).
ResolveCredentials_HalfAccepted(au, ak, env) ==
    IF ~Truthy(au) /\ ~Truthy(ak)
    THEN [ok |-> Truthy(env.username) /\ Truthy(env.apikey),
          username |-> env.username, apikey |-> env.apikey]
    ELSE [ok |-> TRUE, username |-> au, apikey |-> ak]
ResolveCredentials(au, ak, env) ==
    IF ~Truthy(au) /\ ~Truthy(ak)
    THEN [ok |-> Truthy(env.username) /\ Truthy(env.apikey),
          username |-> env.username, apikey |-> env.apikey]
    ELSE IF ~Truthy(au) \/ ~Truthy(ak)
    THEN [ok |-> FALSE, username |-> au, apikey |-> ak]
    ELSE [ok |-> TRUE, username |-> au, apikey |-> ak]

\* line 133: open(file_path, 'rb') succeeds.
LocalFileOpens_Unchecked(state) == TRUE
LocalFileOpens(state) == state = "ok"

\* line 281
StoreCondition_IgnoresFlag(flag, success) == success
StoreCondition(flag, success) == flag = "True" /\ success

Init ==
    /\ pc = "main"
    /\ src \in Resources
    /\ total_size = 0
    /\ downloaded_size = 0
    /\ file_in_ram = [data |-> << >>, pos |-> 0]
    /\ status_code = 0
    /\ resp_body = << >>
    /\ range = NoRange
    /\ bar = NoBar
    /\ headProbes = 0
    /\ rangedGets = 0
    /\ fullGets = 0
    /\ rangedAnswers = {}
    /\ rangedFailures = 0
    /\ fullFailures = 0
    /\ httpErrors = 0
    /\ lastEvent = "start"
    /\ streamed = << >>
    /\ fullBody = << >>
    /\ discarded = << >>
    /\ exitBy = "none"
    /\ source = Unread
    /\ localFile = Unread
    /\ args_username = Unread
    /\ args_apikey = Unread
    /\ store_credential = Unread
    /\ dotenv = UnreadEnv
    /\ username = Unread
    /\ apikey = Unread
    /\ upload_result = None
    /\ dotenv0 = UnreadEnv
    /\ envWrites = 0
    /\ posts = 0
    /\ uploaded = << >>
    /\ displayed = FALSE
    /\ handedOff = << >>

\* lines 36-49: the HEAD probe answers; the length header is the length of
\* the resource, or is absent (0).
HeadProbe ==
    /\ pc = "head"
    /\ \E declared \in {Len(src), 0} :
          total_size' = declared
    /\ downloaded_size' = 0
    /\ file_in_ram' = [data |-> << >>, pos |-> 0]
    /\ headProbes' = headProbes + 1
    /\ pc' = "loop"
    /\ UNCHANGED << src, status_code, resp_body, range, bar, rangedGets,
                    fullGets, rangedAnswers, rangedFailures, fullFailures,
                    httpErrors, lastEvent, streamed, fullBody, discarded,
                    exitBy >>
    /\ UNCHANGED << mainv, handedOff >>

\* line 36: requests.head raises; nothing catches it and the interpreter
\* exits with a non-zero status.
HeadFails ==
    /\ pc = "head"
    /\ headProbes' = headProbes + 1
    /\ pc' = "fatal"
    /\ UNCHANGED << src, prog, rangedGets, fullGets, rangedAnswers,
                    rangedFailures, fullFailures, httpErrors, lastEvent,
                    streamed, fullBody, discarded, exitBy >>
    /\ UNCHANGED << mainv, handedOff >>

\* lines 52-55: the loop condition holds and the ranged GET is issued.
IssueRangedGet ==
    /\ pc = "loop"
    /\ downloaded_size < total_size
    /\ range' = RangeHeader(downloaded_size, total_size)
    /\ rangedGets' = IF rangedGets < MaxGets THEN rangedGets + 1 ELSE MaxGets
    /\ status_code' = 0
    /\ pc' = "ranged"
    /\ UNCHANGED << src, total_size, downloaded_size, file_in_ram, resp_body,
                    bar, headProbes, fullGets, rangedAnswers, rangedFailures,
                    fullFailures, httpErrors, lastEvent, streamed, fullBody,
                    discarded, exitBy >>
    /\ UNCHANGED << mainv, handedOff >>

\* lines 52, 85-87: the loop condition fails; the cursor is reset and the
\* buffer is returned.
LoopExit ==
    /\ pc = "loop"
    /\ ~(downloaded_size < total_size)
    /\ file_in_ram' = RewindForReturn(file_in_ram)
    /\ handedOff' = file_in_ram.data
    /\ exitBy' = "cond"
    /\ pc' = "done"
    /\ UNCHANGED << src, total_size, downloaded_size, status_code, resp_body,
                    range, bar, headProbes, rangedGets, fullGets,
                    rangedAnswers, rangedFailures, fullFailures, httpErrors,
                    lastEvent, streamed, fullBody, discarded >>
    /\ UNCHANGED mainv

\* lines 55-59: the ranged GET is answered 206; a bar is opened at the
\* current offset.
RangedPartialContent ==
    /\ pc = "ranged"
    /\ \E s \in {206} \cup SuccessOther :
          /\ ~RaisesForStatus(s)
          /\ IsPartialContent(s)
          /\ status_code' = s
          /\ resp_body' = ServerBody(s, range)
          /\ rangedAnswers' = rangedAnswers \cup {s}
    /\ bar' = [total |-> total_size, n |-> downloaded_size, open |-> TRUE]
    /\ lastEvent' = "answer"
    /\ pc' = "stream206"
    /\ UNCHANGED << src, total_size, downloaded_size, file_in_ram, range,
                    headProbes, rangedGets, fullGets, rangedFailures,
                    fullFailures, httpErrors, streamed, fullBody, discarded,
                    exitBy >>
    /\ UNCHANGED << mainv, handedOff >>

\* lines 55-58, 64-69: the ranged GET is answered with another success
\* status; the buffer is emptied and the non-ranged GET is issued.  The body
\* of the first answer is never read.
RangedFallback ==
    /\ pc = "ranged"
    /\ \E s \in {206} \cup SuccessOther :
          /\ ~RaisesForStatus(s)
          /\ ~IsPartialContent(s)
          /\ status_code' = s
          /\ rangedAnswers' = rangedAnswers \cup {s}
    /\ file_in_ram' = FallbackReset(file_in_ram)
    /\ discarded' = IF file_in_ram.data # << >> THEN file_in_ram.data
                    ELSE discarded
    /\ range' = NoRange
    /\ fullGets' = fullGets + 1
    /\ resp_body' = << >>
    /\ lastEvent' = "answer"
    /\ pc' = "full"
    /\ UNCHANGED << src, total_size, downloaded_size, bar, headProbes,
                    rangedGets, rangedFailures, fullFailures, httpErrors,
                    streamed, fullBody, exitBy >>
    /\ UNCHANGED << mainv, handedOff >>

\* lines 69-71: the non-ranged GET is answered with a success status; a bar
\* is opened at 0.
FullResponse ==
    /\ pc = "full"
    /\ \E s \in SuccessOther :
          /\ ~RaisesForStatus(s)
          /\ status_code' = s
          /\ resp_body' = ServerBody(s, range)
          /\ fullBody' = ServerBody(s, range)
    /\ bar' = [total |-> total_size, n |-> 0, open |-> TRUE]
    /\ pc' = "streamFull"
    /\ UNCHANGED << src, total_size, downloaded_size, file_in_ram, range,
                    headProbes, rangedGets, fullGets, rangedAnswers,
                    rangedFailures, fullFailures, httpErrors, lastEvent,
                    streamed, discarded, exitBy >>
    /\ UNCHANGED << mainv, handedOff >>

\* lines 56 and 70, 78-80: a 4xx/5xx answer makes raise_for_status raise
\* requests.exceptions.HTTPError, a RequestException: it is logged and the
\* loop continues.
HttpErrorAnswer ==
    /\ pc \in {"ranged", "full"}
    /\ httpErrors < MaxHttpErrors
    /\ \E s \in HttpErrorStatus :
          /\ RaisesForStatus(s)
          /\ status_code' = s
          /\ rangedAnswers' = IF pc = "ranged" THEN rangedAnswers \cup {s}
                              ELSE rangedAnswers
    /\ httpErrors' = httpErrors + 1
    /\ lastEvent' = "httperror"
    /\ pc' = "loop"
    /\ UNCHANGED << src, total_size, downloaded_size, file_in_ram, resp_body,
                    range, bar, headProbes, rangedGets, fullGets,
                    rangedFailures, fullFailures, streamed, fullBody,
                    discarded, exitBy >>
    /\ UNCHANGED << mainv, handedOff >>

\* lines 55 and 69, 78-80: requests.get raises a network-layer exception
\* (connection reset, timeout, DNS failure); it is logged and the loop
\* continues.
RequestFails ==
    /\ pc \in {"ranged", "full"}
    /\ rangedFailures + fullFailures < MaxFailures
    /\ rangedFailures' = IF pc = "ranged" THEN rangedFailures + 1
                         ELSE rangedFailures
    /\ fullFailures' = IF pc = "full" THEN fullFailures + 1 ELSE fullFailures
    /\ lastEvent' = "failure"
    /\ pc' = "loop"
    /\ UNCHANGED << src, prog, headProbes, rangedGets, fullGets,
                    rangedAnswers, httpErrors, streamed, fullBody, discarded,
                    exitBy >>
    /\ UNCHANGED << mainv, handedOff >>

\* lines 60-63: one block of a 206 body is written and counted.
StreamPartialBlock ==
    /\ pc = "stream206"
    /\ resp_body # << >>
    /\ \E n \in 1..Min(BLOCK_SIZE, Len(resp_body)) :
          LET data == SubSeq(resp_body, 1, n) IN
          /\ file_in_ram' = BytesIOWrite(file_in_ram, data)
          /\ downloaded_size' = downloaded_size + Len(data)
          /\ bar' = BarUpdate(bar, data)
          /\ resp_body' = SubSeq(resp_body, n + 1, Len(resp_body))
          /\ streamed' = streamed \o data
    /\ UNCHANGED << pc, src, total_size, status_code, range, headProbes,
                    rangedGets, fullGets, rangedAnswers, rangedFailures,
                    fullFailures, httpErrors, lastEvent, fullBody, discarded,
                    exitBy >>
    /\ UNCHANGED << mainv, handedOff >>

\* lines 60, 59, 52: the 206 body is exhausted; the bar closes and control
\* returns to the loop condition.
StreamPartialEnd ==
    /\ pc = "stream206"
    /\ resp_body = << >>
    /\ bar' = [bar EXCEPT !.open = FALSE]
    /\ lastEvent' = "bodyend"
    /\ pc' = "loop"
    /\ UNCHANGED << src, total_size, downloaded_size, file_in_ram,
                    status_code, resp_body, range, headProbes, rangedGets,
                    fullGets, rangedAnswers, rangedFailures, fullFailures,
                    httpErrors, streamed, fullBody, discarded, exitBy >>
    /\ UNCHANGED << mainv, handedOff >>

\* lines 72-75: one block of the fallback body is written and counted.
StreamFullBlock ==
    /\ pc = "streamFull"
    /\ resp_body # << >>
    /\ \E n \in 1..Min(BLOCK_SIZE, Len(resp_body)) :
          LET data == SubSeq(resp_body, 1, n) IN
          /\ file_in_ram' = BytesIOWrite(file_in_ram, data)
          /\ downloaded_size' = downloaded_size + Len(data)
          /\ bar' = BarUpdate(bar, data)
          /\ resp_body' = SubSeq(resp_body, n + 1, Len(resp_body))
          /\ streamed' = streamed \o data
    /\ UNCHANGED << pc, src, total_size, status_code, range, headProbes,
                    rangedGets, fullGets, rangedAnswers, rangedFailures,
                    fullFailures, httpErrors, lastEvent, fullBody, discarded,
                    exitBy >>
    /\ UNCHANGED << mainv, handedOff >>

\* lines 72, 76, 85-87: the fallback body is exhausted; break leaves the
\* loop, the cursor is reset and the buffer is returned.
StreamFullEnd ==
    /\ pc = "streamFull"
    /\ resp_body = << >>
    /\ bar' = [bar EXCEPT !.open = FALSE]
    /\ file_in_ram' = RewindForReturn(file_in_ram)
    /\ handedOff' = file_in_ram.data
    /\ exitBy' = "break"
    /\ pc' = "done"
    /\ UNCHANGED << src, total_size, downloaded_size, status_code, resp_body,
                    range, headProbes, rangedGets, fullGets, rangedAnswers,
                    rangedFailures, fullFailures, httpErrors, lastEvent,
                    streamed, fullBody, discarded >>
    /\ UNCHANGED mainv

\* lines 60 and 72, 78-80: iter_content raises a network-layer exception in
\* the middle of a body; the bar closes, the failure is logged and the loop
\* continues.
StreamFails ==
    /\ pc \in {"stream206", "streamFull"}
    /\ rangedFailures + fullFailures < MaxFailures
    /\ rangedFailures' = IF pc = "stream206" THEN rangedFailures + 1
                         ELSE rangedFailures
    /\ fullFailures' = IF pc = "streamFull" THEN fullFailures + 1
                       ELSE fullFailures
    /\ bar' = [bar EXCEPT !.open = FALSE]
    /\ resp_body' = << >>
    /\ lastEvent' = "failure"
    /\ pc' = "loop"
    /\ UNCHANGED << src, total_size, downloaded_size, file_in_ram,
                    status_code, range, headProbes, rangedGets, fullGets,
                    rangedAnswers, httpErrors, streamed, fullBody, discarded,
                    exitBy >>
    /\ UNCHANGED << mainv, handedOff >>

\* lines 81-83: an exception that is not a RequestException is raised inside
\* the try block; sys.exit(1).
UnexpectedError ==
    /\ pc \in {"ranged", "stream206", "full", "streamFull"}
    /\ bar' = [bar EXCEPT !.open = FALSE]
    /\ lastEvent' = "unexpected"
    /\ pc' = UnexpectedExceptionExit
    /\ UNCHANGED << src, total_size, downloaded_size, file_in_ram,
                    status_code, resp_body, range, headProbes, rangedGets,
                    fullGets, rangedAnswers, rangedFailures, fullFailures,
                    httpErrors, streamed, fullBody, discarded, exitBy >>
    /\ UNCHANGED << mainv, handedOff >>

\* lines 250-260, 267-271: args.source is a URL and download_to_ram is
\* called, or it is taken as a local path, which names a file that is
\* missing, unreadable or readable.
ParseArgs ==
    /\ pc = "main"
    /\ \/ /\ source' = "url"
          /\ localFile' = "n/a"
          /\ pc' = "head"
       \/ /\ source' = "local"
          /\ localFile' \in {"missing", "unreadable", "ok"}
          /\ pc' = "props"
    /\ UNCHANGED << src, prog, hist, args_username, args_apikey,
                    store_credential, dotenv, username, apikey,
                    upload_result, dotenv0, envWrites, posts, uploaded,
                    displayed, handedOff >>

\* lines 87, 260: control is back in main with the buffer.  The frame of
\* download_to_ram is dropped: its locals no longer exist, and the
\* observation of the call ends with it.
ReturnToMain ==
    /\ pc = "done"
    /\ total_size' = 0
    /\ downloaded_size' = 0
    /\ status_code' = 0
    /\ resp_body' = << >>
    /\ range' = NoRange
    /\ bar' = NoBar
    /\ headProbes' = 0
    /\ rangedGets' = 0
    /\ fullGets' = 0
    /\ rangedAnswers' = {}
    /\ rangedFailures' = 0
    /\ fullFailures' = 0
    /\ httpErrors' = 0
    /\ lastEvent' = "start"
    /\ streamed' = << >>
    /\ fullBody' = << >>
    /\ discarded' = << >>
    /\ exitBy' = "none"
    /\ pc' = "props"
    /\ UNCHANGED << src, file_in_ram, mainv, handedOff >>

\* lines 156-187, called at 263 and 271: get_upload_properties.  The .env
\* file is what os.getenv finds at lines 175-176; it is consulted only when
\* the command line gives neither credential.
GetUploadProperties ==
    /\ pc = "props"
    /\ \E au \in CliUsernames, ak \in CliApikeys :
         \E env \in (IF ~Truthy(au) /\ ~Truthy(ak) THEN EnvFiles
                     ELSE {UnreadEnv}) :
            LET r == ResolveCredentials(au, ak, env) IN
            /\ args_username' = au
            /\ args_apikey' = ak
            /\ dotenv' = env
            /\ dotenv0' = env
            /\ IF r.ok
               THEN /\ username' = r.username
                    /\ apikey' = r.apikey
                    /\ pc' = "upload"
               ELSE /\ UNCHANGED << username, apikey >>
                    /\ pc' = "fatal_credentials"
    /\ UNCHANGED << src, prog, hist, source, localFile, store_credential,
                    upload_result, envWrites, posts, uploaded, displayed,
                    handedOff >>

\* lines 90-114, called at 266: the POST reads the buffer from its cursor to
\* its end and the endpoint answers with a result.
UploadFromRam ==
    /\ pc = "upload"
    /\ source = "url"
    /\ posts' = posts + 1
    /\ uploaded' = SubSeq(file_in_ram.data, file_in_ram.pos + 1,
                          Len(file_in_ram.data))
    /\ file_in_ram' = BytesIOSeek(file_in_ram, Len(file_in_ram.data))
    /\ \E success \in BOOLEAN : upload_result' = [set |-> TRUE, success |-> success]
    /\ pc' = "display"
    /\ UNCHANGED << src, total_size, downloaded_size, status_code, resp_body,
                    range, bar, hist, source, localFile, args_username,
                    args_apikey, store_credential, dotenv, username, apikey,
                    dotenv0, envWrites, displayed, handedOff >>

\* lines 105-111: requests.post or raise_for_status raises; nothing catches
\* it and the interpreter exits with a non-zero status.
UploadFromRamRaises ==
    /\ pc = "upload"
    /\ source = "url"
    /\ posts' = posts + 1
    /\ pc' = "fatal_upload"
    /\ UNCHANGED << src, prog, hist, source, localFile, args_username,
                    args_apikey, store_credential, dotenv, username, apikey,
                    upload_result, dotenv0, envWrites, uploaded, displayed,
                    handedOff >>

\* lines 132-133, 144-149, called at 274: the local file cannot be opened;
\* sys.exit(1) before any request.
LocalFileOpenFails ==
    /\ pc = "upload"
    /\ source = "local"
    /\ ~LocalFileOpens(localFile)
    /\ pc' = "fatal_local"
    /\ UNCHANGED << src, prog, hist, mainv, handedOff >>

\* lines 132-152: the local file is opened and posted; the endpoint answers
\* with a result.
UploadLocalFile ==
    /\ pc = "upload"
    /\ source = "local"
    /\ LocalFileOpens(localFile)
    /\ posts' = posts + 1
    /\ \E success \in BOOLEAN : upload_result' = [set |-> TRUE, success |-> success]
    /\ pc' = "display"
    /\ UNCHANGED << src, prog, hist, source, localFile, args_username,
                    args_apikey, store_credential, dotenv, username, apikey,
                    dotenv0, envWrites, uploaded, displayed, handedOff >>

\* lines 135-141, 147-149: the POST of the local file raises; sys.exit(1).
UploadLocalFileRaises ==
    /\ pc = "upload"
    /\ source = "local"
    /\ LocalFileOpens(localFile)
    /\ posts' = posts + 1
    /\ pc' = "fatal_upload"
    /\ UNCHANGED << src, prog, hist, source, localFile, args_username,
                    args_apikey, store_credential, dotenv, username, apikey,
                    upload_result, dotenv0, envWrites, uploaded, displayed,
                    handedOff >>

\* lines 276-278, 208-231: display_upload_result shows the links of a
\* successful result, or logs the failure and calls sys.exit(1).
DisplayUploadResult ==
    /\ pc = "display"
    /\ upload_result.set
    /\ IF upload_result.success
       THEN /\ displayed' = TRUE
            /\ pc' = "store"
       ELSE /\ displayed' = displayed
            /\ pc' = "fatal_result"
    /\ UNCHANGED << src, prog, hist, source, localFile, args_username,
                    args_apikey, store_credential, dotenv, username, apikey,
                    upload_result, dotenv0, envWrites, posts, uploaded,
                    handedOff >>

\* lines 281-282, 190-204: with --store-credential and a successful result
\* store_credentials rewrites .env; an IOError is logged.  open(.., 'w')
\* may fail and leave the file alone, or a write may fail after open has
\* emptied it.  Then main returns.
StoreCredentialsAndExit ==
    /\ pc = "store"
    /\ \E flag \in {"True", "False"} :
          /\ store_credential' = flag
          /\ IF StoreCondition(flag, upload_result.success)
             THEN \/ /\ dotenv' = [username |-> username, apikey |-> apikey]
                     /\ envWrites' = envWrites + 1
                  \/ UNCHANGED << dotenv, envWrites >>
                  \/ /\ dotenv' \in {[username |-> "", apikey |-> ""],
                                     [username |-> username, apikey |-> ""]}
                     /\ envWrites' = envWrites + 1
             ELSE UNCHANGED << dotenv, envWrites >>
    /\ pc' = "exit0"
    /\ UNCHANGED << src, prog, hist, source, localFile, args_username,
                    args_apikey, username, apikey, upload_result, dotenv0,
                    posts, uploaded, displayed, handedOff >>

Next ==
    \/ ParseArgs
    \/ HeadProbe
    \/ HeadFails
    \/ IssueRangedGet
    \/ LoopExit
    \/ RangedPartialContent
    \/ RangedFallback
    \/ FullResponse
    \/ HttpErrorAnswer
    \/ RequestFails
    \/ StreamPartialBlock
    \/ StreamPartialEnd
    \/ StreamFullBlock
    \/ StreamFullEnd
    \/ StreamFails
    \/ UnexpectedError
    \/ ReturnToMain
    \/ GetUploadProperties
    \/ UploadFromRam
    \/ UploadFromRamRaises
    \/ LocalFileOpenFails
    \/ UploadLocalFile
    \/ UploadLocalFileRaises
    \/ DisplayUploadResult
    \/ StoreCredentialsAndExit

Spec == Init /\ [][Next]_vars

\* lines 56, 78-80, once more: a server that refuses the resource keeps
\* answering the ranged GET with the same 4xx/5xx status, as often as it is
\* asked.  The answers beyond MaxHttpErrors are not counted.
HttpErrorPersists ==
    /\ pc = "ranged"
    /\ httpErrors = MaxHttpErrors
    /\ \E s \in HttpErrorStatus \cap rangedAnswers :
          /\ RaisesForStatus(s)
          /\ status_code' = s
    /\ lastEvent' = "httperror"
    /\ pc' = "loop"
    /\ UNCHANGED << src, total_size, downloaded_size, file_in_ram, resp_body,
                    range, bar, headProbes, rangedGets, fullGets,
                    rangedAnswers, rangedFailures, fullFailures, httpErrors,
                    streamed, fullBody, discarded, exitBy, mainv, handedOff >>

NextLive ==
    \/ Next
    \/ HttpErrorPersists

\* The program is sequential and takes its next step whenever it has one;
\* every request is answered or fails (timeout=60).  The network failures
\* are finitely many (MaxFailures) and every successful answer delivers its
\* body; the server may refuse a ranged GET without end.
LiveSpec == Init /\ [][NextLive]_vars /\ WF_vars(NextLive)

\* The same program against a server whose error answers are finitely many.
FairSpec == Spec /\ WF_vars(Next)

TypeOK ==
    /\ pc \in {"main", "head", "loop", "ranged", "stream206", "full",
               "streamFull", "done", "fatal", "props", "upload", "display",
               "store", "exit0", "fatal_credentials", "fatal_local",
               "fatal_upload", "fatal_result"}
    /\ total_size \in 0..MaxLen
    /\ downloaded_size \in Nat
    /\ file_in_ram.pos \in Nat
    /\ exitBy \in {"none", "cond", "break"}

\* ======================= properties of the download =======================

Buffer == file_in_ram.data

\* C1: whenever download_to_ram returns for a resource whose declared total
\* is greater than 0, the returned buffer holds the complete resource: its
\* length equals the declared total and its bytes are the source bytes in
\* order, whatever 206 answers, 200 answers and transient failures occurred.
C1_ReturnsCompleteResource ==
    (pc = "done" /\ total_size > 0) =>
        /\ Len(Buffer) = total_size
        /\ Buffer = src

\* C2: when a GET of the download loop is answered with a 4xx/5xx status the
\* engine is in the fatal state immediately: no retry, no further GET, no
\* buffer returned.
C2_HttpErrorIsFatal ==
    httpErrors > 0 => pc = "fatal"

\* C3: in a transfer whose ranged GETs are all answered 206, the final
\* buffer is the in-order concatenation of all blocks streamed across all
\* requests and is byte-identical to the source, for any number of transient
\* failures at any offsets.
C3_PartialContentConcatenation ==
    (pc = "done" /\ total_size > 0 /\ rangedAnswers = {206}) =>
        /\ Buffer = streamed
        /\ Buffer = src

\* C3 witness: a download of 3 bytes that took three ranged GETs because of
\* two network failures, every answer a 206, has returned.
C3_Witness ==
    /\ pc = "done"
    /\ rangedAnswers = {206}
    /\ rangedFailures = 2
    /\ rangedGets = 3
    /\ range.start > 0
    /\ total_size = 3

\* C4: a transient failure never leaves bytes_downloaded beyond the bytes
\* written to the buffer, and the ranged GET that follows the failure starts
\* at exactly the last written byte position.
C4_RetryAtWrittenOffset ==
    (lastEvent = "failure" /\ pc \in {"loop", "ranged"}) =>
        /\ downloaded_size <= Len(Buffer)
        /\ pc = "ranged" => range.start = Len(Buffer)

\* C5: when a ranged GET is answered with a non-206 success status after
\* bytes were already written, then once the fallback download completes the
\* buffer is exactly the body of the fresh non-ranged response, with no
\* residue of the discarded bytes before or after it.
C5_FallbackNoResidue ==
    (pc = "done" /\ exitBy = "break" /\ discarded # << >>) =>
        Buffer = fullBody

\* C5 witness: a fallback download has completed after bytes written by a
\* 206 answer were discarded.
C5_Witness ==
    /\ pc = "done"
    /\ exitBy = "break"
    /\ 206 \in rangedAnswers
    /\ discarded # << >>
    /\ Len(fullBody) = 3

\* C6: on every successful return with a declared total greater than 0,
\* downloaded_size equals the declared total, on every path to the return.
C6_CounterEqualsTotalOnReturn ==
    (pc = "done" /\ total_size > 0) => downloaded_size = total_size

\* C7: in every reachable state of a download with a declared total greater
\* than 0, downloaded_size is at most the declared total.
C7_CounterWithinTotal ==
    total_size > 0 => downloaded_size <= total_size

\* C8: when the probe declares a total of 0 for a resource whose body is not
\* empty, the engine still issues a GET and streams to the end of the body,
\* so the returned buffer holds the whole body.
C8_UnknownLengthStreamsBody ==
    (pc = "done" /\ total_size = 0 /\ src # << >>) =>
        /\ rangedGets + fullGets > 0
        /\ Buffer = src

\* Every ranged GET issued so far has been answered, and answered 200.
AllRangedAnswered200 ==
    /\ rangedGets > 0
    /\ pc # "ranged"
    /\ rangedAnswers = {200}
    /\ rangedFailures = 0

\* Exactly one ranged GET and one non-ranged GET; on return the buffer has
\* the declared length and the loop was left by the break.
OneRangedOneFull ==
    /\ rangedGets = 1
    /\ fullGets = 1
    /\ pc = "done" => (Len(Buffer) = total_size /\ exitBy = "break")

C10_ProgressWithinTotal ==
    bar # NoBar => (bar.total = total_size /\ bar.n <= bar.total)

\* C10 witness: the bar of a fallback download that follows discarded
\* partial content stands at the declared total.
C10_Witness ==
    /\ pc = "streamFull"
    /\ discarded # << >>
    /\ rangedFailures > 0
    /\ total_size = 3
    /\ bar.n = total_size

\* The count of ranged GETs never stands still in Spec.
RangedGetsCounted == rangedGets < MaxGets

\* C11: with finitely many transient failures and at least one block per
\* successful answer, a download that has started eventually returns, and
\* when it cannot return it ends in the fatal state instead of looping
\* forever.
C11_ReturnsOrEndsFatal ==
    (pc = "head") ~> (pc \in {"done", "fatal"})

\* C12: a download issues exactly one HEAD probe, before any GET, and then
\* at least one GET; a GET of the ranged mode carries a Range header and the
\* fallback GET carries none.  (The program knows one URL; every request of
\* the model goes to it.  The GET is demanded here only of a download whose
\* resource has a body.)
C12_OneHeadThenGets ==
    /\ headProbes <= 1
    /\ rangedGets + fullGets > 0 => headProbes = 1
    /\ pc = "done" => headProbes = 1
    /\ (pc = "done" /\ src # << >>) => rangedGets + fullGets >= 1
    /\ pc = "ranged" => (range # NoRange /\ range.start >= 0)
    /\ pc = "full" => range = NoRange

\* ---- the run as a whole ----
NetworkRequests == headProbes + rangedGets + fullGets + posts

NonZeroExit == {"fatal", "fatal_credentials", "fatal_local", "fatal_upload",
                "fatal_result"}
Terminal == NonZeroExit \cup {"exit0"}

\* The command line gives neither credential and .env lacks one of them.
NoCredentials ==
    /\ args_username = ""
    /\ args_apikey = ""
    /\ (dotenv0.username = "" \/ dotenv0.apikey = "")

\* The command line gives exactly one of the two credentials.
HalfCredentials ==
    /\ args_username # Unread
    /\ (args_username = "") # (args_apikey = "")

CredentialsMissing == NoCredentials \/ HalfCredentials

\* C13 as stated: when the source is a local path that does not exist, no
\* network request is ever made and the run can only end in the
\* local-resource error state.
C13_MissingFileEndsInLocalError ==
    (source = "local" /\ localFile = "missing") =>
        /\ NetworkRequests = 0
        /\ pc \in Terminal => pc = "fatal_local"

\* C13 amended: when the source is a local path that does not exist, no
\* network request is ever made and the run can only end with a non-zero
\* exit: in the local-resource error state when the credentials are
\* resolved, in the missing-credentials error state otherwise.
C13_MissingFileEndsBeforeNetwork ==
    (source = "local" /\ localFile = "missing") =>
        /\ NetworkRequests = 0
        /\ pc \in Terminal =>
              pc = (IF CredentialsMissing THEN "fatal_credentials"
                    ELSE "fatal_local")

\* C13 witness: a run on a missing local file, with credentials, has ended
\* in the local-resource error state.
C13_Witness ==
    /\ source = "local"
    /\ localFile = "missing"
    /\ username # Unread
    /\ pc = "fatal_local"

\* C14: the process reaches the zero-exit state only after an upload result
\* with success = true was displayed; missing or half-specified credentials
\* end the run in a non-zero exit without any upload POST, and a result with
\* success = false is followed only by the non-zero exit.
C14_ExitStatus ==
    /\ pc = "exit0" =>
          (displayed /\ upload_result.set /\ upload_result.success)
    /\ CredentialsMissing => (pc = "fatal_credentials" /\ posts = 0)
    /\ (upload_result.set /\ ~upload_result.success) =>
          (pc \in {"display", "fatal_result"} /\ ~displayed)

\* C14 witness: a run with credentials has exited with status 0 after one
\* POST whose successful result was displayed.
C14_Witness ==
    /\ pc = "exit0"
    /\ ~CredentialsMissing
    /\ posts = 1
    /\ displayed
    /\ envWrites = 0

\* Positions of a URL run after download_to_ram has returned.
AfterReturn == {"props", "upload", "display", "store", "exit0",
                "fatal_credentials", "fatal_upload", "fatal_result"}

\* C15: the upload POST is issued only after download_to_ram has returned;
\* at handoff the read cursor of the buffer is at 0, so that the POST reads
\* the whole buffer, and from the handoff on the content of the buffer is
\* never written or truncated.
C15_HandoffThenReadOnly ==
    source = "url" =>
        /\ posts > 0 => pc \in AfterReturn
        /\ pc \in {"done", "props", "upload"} => file_in_ram.pos = 0
        /\ pc \in AfterReturn \cup {"done"} => file_in_ram.data = handedOff
        /\ upload_result.set => uploaded = handedOff

\* C15 witness: the POST has read a 3-byte buffer handed off by the
\* download and the endpoint has answered.
C15_Witness ==
    /\ source = "url"
    /\ pc = "display"
    /\ posts = 1
    /\ Len(handedOff) = 3
    /\ uploaded = handedOff

\* C16: each ranged GET requests exactly the byte positions from
\* downloaded_size up to, not including, the declared total: its first
\* position is downloaded_size and its last position is total_size - 1.
C16_RangeIsHalfOpen ==
    pc = "ranged" =>
        /\ range.start = downloaded_size
        /\ range.end = total_size - 1

\* C17: an exception raised inside the download loop that is not a
\* network-layer exception aborts the run with a non-zero exit: it is not
\* retried and no buffer is returned.
C17_UnexpectedExceptionAborts ==
    lastEvent = "unexpected" => (pc = "fatal" /\ exitBy = "none")

\* C17 witness: such an exception was raised while the body of a 206 answer
\* was streamed, after a byte had been written.
C17_Witness ==
    /\ lastEvent = "unexpected"
    /\ pc = "fatal"
    /\ status_code = 206
    /\ downloaded_size > 0

\* C18: the buffer is append-only except in the fallback step: every step
\* leaves its content a prefix of the new content, but for the step that
\* handles a non-206 success answer to a ranged GET, which empties it.
C18_AppendOnlyExceptFallback ==
    [][\/ IsPrefix(file_in_ram.data, file_in_ram'.data)
       \/ /\ pc = "ranged"
          /\ pc' = "full"
          /\ file_in_ram'.data = << >>]_vars

\* C18 witness: the fallback step has just emptied a buffer of two bytes.
C18_Witness ==
    /\ pc = "full"
    /\ Len(discarded) = 2
    /\ file_in_ram.data = << >>
    /\ downloaded_size = 2

\* C19: at every evaluation of the loop condition and at every issue of a
\* ranged GET the length of the buffer equals downloaded_size, so that the
\* Range start is the number of bytes in the buffer.
C19_BufferLengthIsCounter ==
    pc \in {"loop", "ranged"} =>
        /\ Len(Buffer) = downloaded_size
        /\ pc = "ranged" => range.start = Len(Buffer)

\* C20: the .env store is written only in a run where --store-credential
\* was given and the upload result reports success; a run whose upload
\* fails or whose credentials are missing leaves the stored credentials as
\* they were.
C20_StoreOnlyOnRequestedSuccess ==
    /\ envWrites > 0 =>
          /\ store_credential = "True"
          /\ upload_result.set /\ upload_result.success
    /\ envWrites = 0 => dotenv = dotenv0
    /\ ((upload_result.set /\ ~upload_result.success) \/ CredentialsMissing)
          => (envWrites = 0 /\ dotenv = dotenv0)

\* C20 witness: a run with --store-credential and a successful upload has
\* written the credentials of its command line to .env.
C20_Witness ==
    /\ pc = "exit0"
    /\ store_credential = "True"
    /\ envWrites = 1
    /\ dotenv = [username |-> "cliU", apikey |-> "cliK"]

====
